---------------------------- MODULE Spec2Model ----------------------------
(***************************************************************************)
(* Model of package analysis of dockgo: the layer record builder           *)
(* (NewDockerLayer), the parent-chain traversals (Hierarchy,               *)
(* CumulativeSize), the image queries (LastNLayers, LargestNLayers) and    *)
(* the ranking / aggregation functions (mostCommon, sortLayers, TotalSize, *)
(* MedianSize).                                                            *)
(*                                                                         *)
(* Go strings are sequences of one-character strings, so that splitting    *)
(* and parsing are computed, not assumed.  A *DockerLayer is an index in   *)
(* the sequence `built` of records allocated so far; 0 is the nil pointer. *)
(* int64 is modelled as a two's complement integer of IntBits bits.        *)
(***************************************************************************)
EXTENDS Integers, Sequences, FiniteSets, TLC

\* ------------------------------------------------------------------ bounds
\* Number of NewDockerLayer records allocated in one behaviour.
MaxLayers == 3
\* Width in bits of the model's int64.
IntBits == 5
\* Largest count argument n handed to a query; the smallest is -1.
MaxN == 4

VARIABLES
    built,   \* the DockerLayer records allocated by NewDockerLayer, in call order
    image,   \* one DockerImage value: [Name, Layers, Size]
    res      \* what the most recent call returned (or that it panicked)

vars == <<built, image, res>>

\* --------------------------------------------------------------- int64
RECURSIVE Pow2(_)
Pow2(k) == IF k = 0 THEN 1 ELSE 2 * Pow2(k - 1)

MaxInt64 == Pow2(IntBits - 1) - 1
MinInt64 == -Pow2(IntBits - 1)

\* Two's complement wrap-around of an int64 addition.
Wrap(x) == ((x + Pow2(IntBits - 1)) % Pow2(IntBits)) - Pow2(IntBits - 1)

\* Go's integer division truncates toward zero.
Quo(a, b) == IF a >= 0 THEN a \div b ELSE -((-a) \div b)

Min(a, b) == IF a < b THEN a ELSE b

\* ------------------------------------------------------------- strings
\* unicode.IsSpace on the characters the inputs use.
IsSpace(c) == c \in {" ", "\t", "\n"}

Digits == <<"0", "1", "2", "3", "4", "5", "6", "7", "8", "9">>

IsDigit(c) == \E d \in 1..10 : Digits[d] = c

DigitVal(c) == (CHOOSE d \in 1..10 : Digits[d] = c) - 1

\* strings.Fields: the maximal runs of non-space characters, in order.
RECURSIVE FieldsFrom(_, _, _, _)
FieldsFrom(line, i, cur, acc) ==
    IF i > Len(line)
    THEN IF cur = <<>> THEN acc ELSE Append(acc, cur)
    ELSE IF IsSpace(line[i])
         THEN FieldsFrom(line, i + 1, <<>>,
                         IF cur = <<>> THEN acc ELSE Append(acc, cur))
         ELSE FieldsFrom(line, i + 1, Append(cur, line[i]), acc)

Fields(line) == FieldsFrom(line, 1, <<>>, <<>>)

\* strings.Split(s, ","): every piece between separators, empty ones included;
\* the empty string gives one empty piece.
RECURSIVE SplitFrom(_, _, _, _)
SplitFrom(s, i, cur, acc) ==
    IF i > Len(s)
    THEN Append(acc, cur)
    ELSE IF s[i] = ","
         THEN SplitFrom(s, i + 1, <<>>, Append(acc, cur))
         ELSE SplitFrom(s, i + 1, Append(cur, s[i]), acc)

Split(s) == SplitFrom(s, 1, <<>>, <<>>)

RECURSIVE DigitsValue(_, _)
DigitsValue(s, acc) ==
    IF s = <<>> THEN acc ELSE DigitsValue(Tail(s), 10 * acc + DigitVal(s[1]))

\* strconv.ParseInt(s, 10, 64): an optional sign, then one or more decimal
\* digits; a value outside the int64 range is an error too.
ParseInt(s) ==
    LET body == IF s # <<>> /\ s[1] \in {"+", "-"} THEN Tail(s) ELSE s
    IN  IF body = <<>> \/ \E i \in 1..Len(body) : ~IsDigit(body[i])
        THEN [ok |-> FALSE, value |-> 0]
        ELSE LET mag == DigitsValue(body, 0)
                 v   == IF s[1] = "-" THEN -mag ELSE mag
             IN  IF v < MinInt64 THEN [ok |-> FALSE, value |-> MinInt64]
                 ELSE IF v > MaxInt64 THEN [ok |-> FALSE, value |-> MaxInt64]
                 ELSE [ok |-> TRUE, value |-> v]

\* strconv.FormatInt(n, 10), used to write the size fields of the input lines.
RECURSIVE Utoa(_)
Utoa(n) == IF n < 10 THEN <<Digits[n + 1]>>
           ELSE Utoa(n \div 10) \o <<Digits[(n % 10) + 1]>>

Itoa(n) == IF n < 0 THEN <<"-">> \o Utoa(-n) ELSE Utoa(n)

\* --------------------------------------------------------------- time
Num2(s, i) == 10 * DigitVal(s[i]) + DigitVal(s[i + 1])

IsLeap(y) == (y % 4 = 0 /\ y % 100 # 0) \/ y % 400 = 0

DaysIn(y, m) == IF m = 2 THEN (IF IsLeap(y) THEN 29 ELSE 28)
                ELSE IF m \in {4, 6, 9, 11} THEN 30 ELSE 31

\* time.Parse(time.RFC3339, s) on the UTC form YYYY-MM-DDTHH:MM:SSZ, the only
\* form of a well-formed timestamp among the input lines: the layout's
\* punctuation and digits, then the range of each component.  The instant is
\* kept as <<year, month, day, hour, minute, second>>.
ParseRFC3339(s) ==
    LET bad == [ok |-> FALSE, value |-> <<0, 0, 0, 0, 0, 0>>]
        digitAt == {1, 2, 3, 4, 6, 7, 9, 10, 12, 13, 15, 16, 18, 19}
    IN  IF Len(s) # 20 THEN bad
        ELSE IF \/ \E i \in digitAt : ~IsDigit(s[i])
                \/ s[5] # "-" \/ s[8] # "-" \/ s[11] # "T"
                \/ s[14] # ":" \/ s[17] # ":" \/ s[20] # "Z"
        THEN bad
        ELSE LET y  == 100 * Num2(s, 1) + Num2(s, 3)
                 mo == Num2(s, 6)
                 d  == Num2(s, 9)
                 h  == Num2(s, 12)
                 mi == Num2(s, 15)
                 se == Num2(s, 18)
             IN  IF \/ mo < 1 \/ mo > 12 \/ d < 1 \/ d > DaysIn(y, mo)
                    \/ h > 23 \/ mi > 59 \/ se > 59
                 THEN bad
                 ELSE [ok |-> TRUE, value |-> <<y, mo, d, h, mi, se>>]

\* time.Time.Before on two UTC instants.
RECURSIVE BeforeFrom(_, _, _)
BeforeFrom(a, b, i) ==
    IF i > Len(a) THEN FALSE
    ELSE IF a[i] # b[i] THEN a[i] < b[i]
    ELSE BeforeFrom(a, b, i + 1)

Before(a, b) == BeforeFrom(a, b, 1)

After(a, b) == BeforeFrom(b, a, 1)

\* ------------------------------------------------------- DockerLayer
\* The zero DockerLayer; stands for the record a nil *DockerLayer lacks.
ZeroLayer ==
    [ID |-> <<>>, Size |-> 0, Command |-> <<>>, Author |-> <<>>,
     Created |-> <<0, 0, 0, 0, 0, 0>>, CreatedBy |-> <<>>, Tags |-> <<>>,
     Parent |-> 0]

\* NewDockerLayer(line, parent).  fault: the call panicked; hasLayer: the
\* returned *DockerLayer is not nil; hasErr: the returned error is not nil.
NewDockerLayer(line, parent) ==
    LET fields  == Fields(line)
        none    == [fault |-> FALSE, hasLayer |-> FALSE, hasErr |-> TRUE,
                    err |-> "", layer |-> ZeroLayer]
    IN  IF Len(fields) < 6
        THEN [none EXCEPT !.err = "invalid line"]
        ELSE LET size == ParseInt(fields[2])
             IN  IF ~size.ok
                 THEN [none EXCEPT !.err = "invalid size"]
                 ELSE LET created == ParseRFC3339(fields[5])
                      IN  IF ~created.ok
                          THEN [none EXCEPT !.err = "invalid creation time"]
                          ELSE IF Len(fields) < 7
                          \* fields[6] of the literal: index out of range
                          THEN [none EXCEPT !.fault = TRUE, !.hasErr = FALSE]
                          ELSE [fault |-> FALSE, hasLayer |-> TRUE,
                                hasErr |-> FALSE, err |-> "",
                                layer |->
                                  [ID        |-> fields[1],
                                   Size      |-> size.value,
                                   Command   |-> fields[3],
                                   Author    |-> fields[4],
                                   Created   |-> created.value,
                                   CreatedBy |-> fields[7],
                                   Tags      |-> Split(fields[6]),
                                   Parent    |-> parent]]


\* Hierarchy of the record at *DockerLayer i of heap h: the parent's hierarchy,
\* then " -> ", then the record's own ID.
Arrow == <<" ", "-", ">", " ">>

RECURSIVE Hierarchy(_, _)
Hierarchy(h, i) ==
    IF h[i].Parent = 0
    THEN h[i].ID
    ELSE Hierarchy(h, h[i].Parent) \o Arrow \o h[i].ID

\* A CumulativeSize that forgets the root ancestor's own size.
RECURSIVE CumulativeSizeSkipsRoot(_, _)
CumulativeSizeSkipsRoot(h, i) ==
    IF h[i].Parent = 0
    THEN 0
    ELSE Wrap(h[i].Size + CumulativeSizeSkipsRoot(h, h[i].Parent))

RECURSIVE CumulativeSize(_, _)
CumulativeSize(h, i) ==
    IF h[i].Parent = 0
    THEN h[i].Size
    ELSE Wrap(h[i].Size + CumulativeSize(h, h[i].Parent))

\* ------------------------------------------------------------ sorting
\* The arrangements of 1..k: k put at each place of each arrangement of
\* 1..k-1.
RECURSIVE Perms(_)
Perms(k) ==
    IF k = 0 THEN {<<>>}
    ELSE {SubSeq(p, 1, j - 1) \o <<k>> \o SubSeq(p, j, k - 1) :
            p \in Perms(k - 1), j \in 1..k}

Elems(s) == {s[i] : i \in 1..Len(s)}

\* sort.Slice(s, less): s rearranged so that no element is `less` than one
\* placed before it; the closure less is a function on pairs of elements.
\* sort.Slice is documented not to be stable, so the order of elements
\* neither of which is less than the other is the implementation's choice:
\* every such arrangement is an outcome.
SortSlice(s, less) ==
    LET k == Len(s)
    IN  {[i \in 1..k |-> s[p[i]]] :
            p \in {q \in Perms(k) :
                     \A i, j \in 1..k : i < j => ~less[s[q[j]], s[q[i]]]}}

\* What a query returns: it panicked, or it returned `layers`.
Panicked == [fault |-> TRUE, layers |-> <<>>, strs |-> <<>>, num |-> 0]

Gave(ls) == [fault |-> FALSE, layers |-> ls, strs |-> <<>>, num |-> 0]

GaveStrings(ss) == [fault |-> FALSE, layers |-> <<>>, strs |-> ss, num |-> 0]

GaveNumber(x) == [fault |-> FALSE, layers |-> <<>>, strs |-> <<>>, num |-> x]

\* s[:n] after the clamp `if n > len(s) { n = len(s) }`: a negative n is a
\* slice-bounds panic.
Truncate(s, n) ==
    IF n < 0 THEN Panicked ELSE Gave(SubSeq(s, 1, Min(n, Len(s))))

\* sortLayers(layers, comparison, n): the possible return values.
sortLayers(layers, comparison, n) ==
    {Truncate(c, n) : c \in SortSlice(layers, comparison)}

SizeDescending(layer1, layer2) == layer1.Size > layer2.Size

SizeAscending(layer1, layer2) == layer1.Size < layer2.Size

CreatedBefore(layer1, layer2) == Before(layer1.Created, layer2.Created)

CreatedAfter(layer1, layer2) == After(layer1.Created, layer2.Created)

LargestLayers(layers, n) ==
    sortLayers(layers,
               [layer1 \in Elems(layers), layer2 \in Elems(layers) |->
                   SizeDescending(layer1, layer2)], n)

SmallestLayers(layers, n) ==
    sortLayers(layers,
               [layer1 \in Elems(layers), layer2 \in Elems(layers) |->
                   SizeAscending(layer1, layer2)], n)

OldestLayers(layers, n) ==
    sortLayers(layers,
               [layer1 \in Elems(layers), layer2 \in Elems(layers) |->
                   CreatedBefore(layer1, layer2)], n)

NewestLayers(layers, n) ==
    sortLayers(layers,
               [layer1 \in Elems(layers), layer2 \in Elems(layers) |->
                   CreatedAfter(layer1, layer2)], n)

\* DockerImage.LargestNLayers(n): the same copy, sort.Slice and truncation,
\* written out in the method.
LargestNLayers(img, n) ==
    {Truncate(c, n) :
        c \in SortSlice(img.Layers,
                        [x \in Elems(img.Layers), y \in Elems(img.Layers) |->
                            SizeDescending(x, y)])}

\* DockerImage.LastNLayers(n): image.Layers[len-n:] after clamping n from
\* above only; for n < 0 the low bound exceeds the length and the slice
\* expression panics.
LastNLayers(img, n) ==
    LET len == Len(img.Layers)
        m   == IF n > len THEN len ELSE n
    IN  IF len - m > len
        THEN Panicked
        ELSE Gave(SubSeq(img.Layers, len - m + 1, len))

\* ------------------------------------------------------- frequencies
CommandFrequency(layers) ==
    [c \in {layers[i].Command : i \in 1..Len(layers)} |->
        Cardinality({i \in 1..Len(layers) : layers[i].Command = c})]

AuthorFrequency(layers) ==
    [a \in {layers[i].Author : i \in 1..Len(layers)} |->
        Cardinality({i \in 1..Len(layers) : layers[i].Author = a})]

TagSlots(layers) ==
    UNION {{<<i, j>> : j \in 1..Len(layers[i].Tags)} : i \in 1..Len(layers)}

TagFrequency(layers) ==
    [t \in {layers[s[1]].Tags[s[2]] : s \in TagSlots(layers)} |->
        Cardinality({s \in TagSlots(layers) : layers[s[1]].Tags[s[2]] = t})]

\* A comparison that ranks the rarest first.
FrequencyAscending(f1, f2) == f1.Count < f2.Count

FrequencyDescending(f1, f2) == f1.Count > f2.Count

\* mostCommon(mapWithCount, n): the possible return values.  The map is
\* ranged over in an order the runtime chooses, sorted with sort.Slice, and
\* the first n values are copied into a slice made with length n; make
\* panics for a negative length.
mostCommon(mapWithCount, n) ==
    LET keys   == DOMAIN mapWithCount
        k      == Cardinality(keys)
        first  == CHOOSE f \in [1..k -> keys] :
                     \A i, j \in 1..k : i # j => f[i] # f[j]
        ranges == {[i \in 1..k |-> first[p[i]]] : p \in Perms(k)}
        frequencies(f) ==
            [i \in 1..k |-> [Value |-> f[i], Count |-> mapWithCount[f[i]]]]
        values(s) == [i \in 1..n |-> IF i <= k THEN s[i].Value ELSE <<>>]
    IN  UNION {{IF n < 0 THEN Panicked ELSE GaveStrings(values(s)) :
                  s \in SortSlice(frequencies(f),
                                  [x \in Elems(frequencies(f)),
                                   y \in Elems(frequencies(f)) |->
                                      FrequencyDescending(x, y)])} :
               f \in ranges}

MostCommonCommands(layers, n) == mostCommon(CommandFrequency(layers), n)

MostProlificAuthors(layers, n) == mostCommon(AuthorFrequency(layers), n)

MostCommonTags(layers, n) == mostCommon(TagFrequency(layers), n)

\* ---------------------------------------------------------- statistics
\* TotalSize: an int64 accumulator, wrapping on overflow.
RECURSIVE TotalSize(_)
TotalSize(layers) ==
    IF layers = <<>> THEN 0
    ELSE Wrap(TotalSize(SubSeq(layers, 1, Len(layers) - 1))
              + layers[Len(layers)].Size)

\* MedianSize(layers): the possible return values.
MedianSize(layers) ==
    {IF Len(layer) = 0 THEN 0
     ELSE LET middle == Len(layer) \div 2
          IN  IF Len(layer) % 2 = 0
              THEN Quo(Wrap(layer[middle].Size + layer[middle + 1].Size), 2)
              ELSE layer[middle + 1].Size :
     layer \in SortSlice(layers,
                         [x \in Elems(layers), y \in Elems(layers) |->
                             SizeAscending(x, y)])}


\* --------------------------------------------------------------- inputs
RECURSIVE Join(_, _)
Join(words, sep) ==
    IF words = <<>> THEN <<>>
    ELSE IF Len(words) = 1 THEN words[1]
    ELSE words[1] \o sep \o Join(Tail(words), sep)

January  == <<"2", "0", "2", "1", "-", "0", "1", "-", "0", "1", "T",
              "0", "0", ":", "0", "0", ":", "0", "0", "Z">>
February == <<"2", "0", "2", "1", "-", "0", "2", "-", "0", "1", "T",
              "0", "0", ":", "0", "0", ":", "0", "0", "Z">>
\* 30 February: the layout matches, the day is out of range.
NoSuchDay == <<"2", "0", "2", "1", "-", "0", "2", "-", "3", "0", "T",
               "0", "0", ":", "0", "0", ":", "0", "0", "Z">>
DateOnly == <<"2", "0", "2", "1", "-", "0", "1", "-", "0", "1">>

RUN  == <<"R", "U", "N">>
COPY == <<"C", "O", "P", "Y">>

\* Lines of `docker history` output that NewDockerLayer turns into a record:
\* seven fields or more, two of them of equal size, one of the largest int64
\* and one of negative size.
GoodLines ==
    {Join(<<<<"a">>, <<"7">>, RUN, <<"x">>, January, <<"t", ",", "u">>,
            <<"b">>>>, <<" ">>),
     Join(<<<<"b">>, <<"7">>, COPY, <<"y">>, February, <<"t">>,
            <<"c">>>>, <<" ">>),
     <<"\t">> \o Join(<<<<"c">>, Itoa(MaxInt64), RUN, <<"x">>, January,
                        <<"u", ",">>, <<"d">>, <<"e">>>>, <<" ", " ">>)
              \o <<"\n">>,
     Join(<<<<"d">>, <<"-", "3">>, COPY, <<"y">>, February, <<"t">>,
            <<"c">>>>, <<" ">>)}

\* Lines that do not: too few fields, exactly six fields, a size that is no
\* integer or no int64, a timestamp that is no RFC3339 instant.
BadLines ==
    {Join(<<<<"a">>, <<"7">>, RUN, <<"x">>, January>>, <<" ">>),
     Join(<<<<"a">>, <<"7">>, RUN, <<"x">>, January, <<"t">>>>, <<" ">>),
     Join(<<<<"a">>, <<"7", "x">>, RUN, <<"x">>, January, <<"t">>,
            <<"b">>>>, <<" ">>),
     Join(<<<<"a">>, Itoa(MaxInt64 + 1), RUN, <<"x">>, January, <<"t">>,
            <<"b">>>>, <<" ">>),
     Join(<<<<"a">>, <<"7">>, RUN, <<"x">>, NoSuchDay, <<"t">>,
            <<"b">>>>, <<" ">>),
     Join(<<<<"a">>, <<"7">>, RUN, <<"x">>, DateOnly, <<"t">>,
            <<"b">>>>, <<" ">>)}

Lines == GoodLines \cup BadLines

\* NewDockerLayer is a pure function of its arguments: its value on every
\* input line and parent pointer, computed once.
NewDockerLayerOn ==
    [line \in Lines, parent \in 0..MaxLayers |-> NewDockerLayer(line, parent)]

\* The count arguments handed to the queries.
Counts == -1..MaxN

\* --------------------------------------------------------------- state
\* Nothing returned yet.
NoCall ==
    [op |-> "", fault |-> FALSE, line |-> <<>>, parent |-> 0,
     hasLayer |-> FALSE, hasErr |-> FALSE, err |-> "", layer |-> ZeroLayer,
     n |-> 0, arg |-> <<>>, freq |-> <<>>, idx |-> 0,
     layers |-> <<>>, strs |-> <<>>, text |-> <<>>, num |-> 0]

\* The zero DockerImage and no record allocated.
Init ==
    /\ built = <<>>
    /\ image = [Name |-> <<"i", "m", "g">>, Layers |-> <<>>, Size |-> 0]
    /\ res = NoCall

\* An unrecovered panic ends the program: nothing is called after it.
Running == ~res.fault

\* The queries and traversals return copies and change nothing the next call
\* reads, so one that follows another reaches no state the first does not:
\* each is taken from the states the building steps leave.
Building == Running /\ res.op \in {"", "NewDockerLayer"}

\* A query on the image's layers returned o.
Returned(op, n, o) ==
    /\ res' = [NoCall EXCEPT !.op = op, !.n = n, !.arg = image.Layers,
                             !.fault = o.fault, !.layers = o.layers,
                             !.strs = o.strs, !.num = o.num]
    /\ UNCHANGED <<built, image>>

\* layer, err := NewDockerLayer(line, parent), the parent being the record
\* built last (nil for the first); a record returned is a new allocation.
CallNewDockerLayer ==
    /\ Running
    /\ Len(built) < MaxLayers
    /\ \E line \in Lines :
          LET parent == Len(built)
              r == NewDockerLayerOn[line, parent]
          IN  /\ built' = IF r.hasLayer THEN Append(built, r.layer) ELSE built
              /\ res' = [NoCall EXCEPT !.op = "NewDockerLayer",
                                       !.line = line, !.parent = parent,
                                       !.fault = r.fault,
                                       !.hasLayer = r.hasLayer,
                                       !.hasErr = r.hasErr, !.err = r.err,
                                       !.layer = r.layer]
    /\ UNCHANGED image

\* image.Layers = append(image.Layers, *layer), for the records in the order
\* they were built.  Layers is an exported field and the package has no
\* other way to fill it; no statement of the package assigns image.Size.
AppendLayer ==
    /\ Running
    /\ Len(image.Layers) < Len(built)
    /\ image' = [image EXCEPT
                   !.Layers = Append(@, built[Len(image.Layers) + 1])]
    /\ UNCHANGED <<built, res>>

CallHierarchy ==
    /\ Building
    /\ \E i \in 1..Len(built) :
          res' = [NoCall EXCEPT !.op = "Hierarchy", !.idx = i,
                                !.text = Hierarchy(built, i)]
    /\ UNCHANGED <<built, image>>

CallCumulativeSize ==
    /\ Building
    /\ \E i \in 1..Len(built) :
          res' = [NoCall EXCEPT !.op = "CumulativeSize", !.idx = i,
                                !.num = CumulativeSize(built, i)]
    /\ UNCHANGED <<built, image>>

CallLastNLayers ==
    /\ Building
    /\ \E n \in Counts : Returned("LastNLayers", n, LastNLayers(image, n))

CallLargestNLayers ==
    /\ Building
    /\ \E n \in Counts : \E o \in LargestNLayers(image, n) :
           Returned("LargestNLayers", n, o)

CallLargestLayers ==
    /\ Building
    /\ \E n \in Counts : \E o \in LargestLayers(image.Layers, n) :
           Returned("LargestLayers", n, o)

CallSmallestLayers ==
    /\ Building
    /\ \E n \in Counts : \E o \in SmallestLayers(image.Layers, n) :
           Returned("SmallestLayers", n, o)

CallOldestLayers ==
    /\ Building
    /\ \E n \in Counts : \E o \in OldestLayers(image.Layers, n) :
           Returned("OldestLayers", n, o)

CallNewestLayers ==
    /\ Building
    /\ \E n \in Counts : \E o \in NewestLayers(image.Layers, n) :
           Returned("NewestLayers", n, o)

\* A ranking of the keys of frequency table m returned o.
Ranked(op, n, m, o) ==
    /\ res' = [NoCall EXCEPT !.op = op, !.n = n, !.arg = image.Layers,
                             !.freq = m, !.fault = o.fault, !.strs = o.strs]
    /\ UNCHANGED <<built, image>>

CallMostCommonCommands ==
    /\ Building
    /\ \E n \in Counts : \E o \in MostCommonCommands(image.Layers, n) :
           Ranked("MostCommonCommands", n, CommandFrequency(image.Layers), o)

CallMostProlificAuthors ==
    /\ Building
    /\ \E n \in Counts : \E o \in MostProlificAuthors(image.Layers, n) :
           Ranked("MostProlificAuthors", n, AuthorFrequency(image.Layers), o)

CallMostCommonTags ==
    /\ Building
    /\ \E n \in Counts : \E o \in MostCommonTags(image.Layers, n) :
           Ranked("MostCommonTags", n, TagFrequency(image.Layers), o)

CallTotalSize ==
    /\ Building
    /\ Returned("TotalSize", 0, GaveNumber(TotalSize(image.Layers)))

CallMedianSize ==
    /\ Building
    /\ \E x \in MedianSize(image.Layers) :
           Returned("MedianSize", 0, GaveNumber(x))

Next ==
    \/ CallNewDockerLayer
    \/ AppendLayer
    \/ CallHierarchy
    \/ CallCumulativeSize
    \/ CallLastNLayers
    \/ CallLargestNLayers
    \/ CallLargestLayers
    \/ CallSmallestLayers
    \/ CallOldestLayers
    \/ CallNewestLayers
    \/ CallMostCommonCommands
    \/ CallMostProlificAuthors
    \/ CallMostCommonTags
    \/ CallTotalSize
    \/ CallMedianSize

Spec == Init /\ [][Next]_vars


\* ----------------------------------------------------------- properties
\* The exact (unbounded) sum of the sizes of a sequence of layers.
RECURSIVE SumOfSizes(_)
SumOfSizes(layers) ==
    IF layers = <<>> THEN 0 ELSE layers[1].Size + SumOfSizes(Tail(layers))

\* The i-th smallest size among layers, counting repetitions.
KthSize(layers, i) ==
    CHOOSE x \in {layers[j].Size : j \in 1..Len(layers)} :
        /\ Cardinality({j \in 1..Len(layers) : layers[j].Size < x}) < i
        /\ i <= Cardinality({j \in 1..Len(layers) : layers[j].Size <= x})

\* The median of the sizes in exact arithmetic, halves truncated.
ExactMedian(layers) ==
    LET len == Len(layers)
    IN  IF len = 0 THEN 0
        ELSE IF len % 2 = 1 THEN KthSize(layers, (len \div 2) + 1)
        ELSE Quo(KthSize(layers, len \div 2)
                 + KthSize(layers, (len \div 2) + 1), 2)

ResFields == Fields(res.line)

\* C1: every NewDockerLayer call ends with a record and no error or with an
\* error and no record, never in a panic; a line of exactly six fields gives
\* an error, and so does a line with fewer than six fields, with a size that
\* is no integer or with a timestamp that is not RFC3339.
C1_RecordOrErrorNeverPanic ==
    res.op = "NewDockerLayer" =>
        /\ ~res.fault
        /\ res.hasLayer # res.hasErr
        /\ Len(ResFields) = 6 => res.hasErr /\ ~res.hasLayer
        /\ (\/ Len(ResFields) < 6
            \/ ~ParseInt(ResFields[2]).ok
            \/ ~ParseRFC3339(ResFields[5]).ok) => res.hasErr /\ ~res.hasLayer

\* C2: a line of at least six fields whose size field is a base-10 integer
\* and whose timestamp field is RFC3339 gives a record, and the record's id,
\* size, command, author, created time and tags are fields 0..5 of the line
\* (the tags being field 5 split on commas), its Parent the parent given.
C2_ValidLineGivesMatchingRecord ==
    (/\ res.op = "NewDockerLayer"
     /\ Len(ResFields) >= 6
     /\ ParseInt(ResFields[2]).ok
     /\ ParseRFC3339(ResFields[5]).ok) =>
        /\ ~res.fault
        /\ res.hasLayer /\ ~res.hasErr
        /\ res.layer.ID = ResFields[1]
        /\ res.layer.Size = ParseInt(ResFields[2]).value
        /\ res.layer.Command = ResFields[3]
        /\ res.layer.Author = ResFields[4]
        /\ res.layer.Created = ParseRFC3339(ResFields[5]).value
        /\ res.layer.Tags = Split(ResFields[6])
        /\ res.layer.Parent = res.parent

\* C3: LastNLayers(n) returns the last min(n, len) layers in stored order:
\* nothing when n <= 0, negative n included, and every layer when n exceeds
\* their number.
C3_LastNLayersClamps ==
    res.op = "LastNLayers" =>
        LET len == Len(res.arg)
        IN  /\ ~res.fault
            /\ res.layers = IF res.n <= 0 THEN <<>>
                            ELSE SubSeq(res.arg, len - Min(res.n, len) + 1, len)

\* C4: for n >= 0, LargestNLayers(n) and LargestLayers(layers, n) return
\* exactly min(n, len) layers, in non-increasing size order, that are the
\* largest of the input, and layers of equal size keep their original
\* relative order.
C4_LargestAreSortedAndStable ==
    (res.op \in {"LargestNLayers", "LargestLayers"} /\ res.n >= 0) =>
        LET a == res.arg
            r == res.layers
            m == Min(res.n, Len(a))
        IN  /\ ~res.fault
            /\ Len(r) = m
            /\ \A i \in 1..(m - 1) : r[i].Size >= r[i + 1].Size
            /\ \E pos \in [1..m -> 1..Len(a)] :
                  /\ \A i \in 1..m : r[i] = a[pos[i]]
                  /\ \A i, j \in 1..m : i # j => pos[i] # pos[j]
                  /\ \A j \in 1..Len(a) :
                        (\A i \in 1..m : pos[i] # j) =>
                            \A i \in 1..m : a[j].Size <= r[i].Size
                  /\ \A i, j \in 1..m :
                        (i < j /\ r[i].Size = r[j].Size) => pos[i] < pos[j]

RankOps == {"MostCommonCommands", "MostProlificAuthors", "MostCommonTags"}

\* C5: for a frequency map of k distinct keys and n >= 0, mostCommon returns
\* exactly n entries; the first min(n, k) are distinct keys of the map in
\* non-increasing count order, no key left out has a strictly higher count
\* than a key included, and the other n - k entries are empty strings.
C5_MostCommonRanksAndPads ==
    (res.op \in RankOps /\ res.n >= 0) =>
        LET m   == res.freq
            k   == Cardinality(DOMAIN m)
            top == Min(res.n, k)
            v   == res.strs
        IN  /\ ~res.fault
            /\ DOMAIN v = 1..res.n
            /\ \A i \in 1..top : v[i] \in DOMAIN m
            /\ \A i, j \in 1..top : i # j => v[i] # v[j]
            /\ \A i, j \in 1..top : i < j => m[v[i]] >= m[v[j]]
            /\ \A key \in DOMAIN m :
                  (\A i \in 1..top : v[i] # key) =>
                      \A i \in 1..top : m[key] <= m[v[i]]
            /\ \A i \in (top + 1)..res.n : v[i] = <<>>

\* A ranking asked for more keys than the table has, over a table of keys
\* with different counts, and another key tied with one of them.
C5_Witness ==
    /\ res.op \in RankOps
    /\ ~res.fault
    /\ res.n > Cardinality(DOMAIN res.freq)
    /\ \E a, b, c \in DOMAIN res.freq :
          a # b /\ res.freq[a] = res.freq[b] /\ res.freq[c] > res.freq[a]

\* C6: MedianSize is 0 for no layers, the middle size of the ascending order
\* for an odd count, and for an even count the exact average of the two
\* middle sizes, truncated: the sum of the two does not wrap around.
C6_MedianIsExact ==
    res.op = "MedianSize" => res.num = ExactMedian(res.arg)

SortOps ==
    {"LargestNLayers", "LargestLayers", "SmallestLayers", "OldestLayers",
     "NewestLayers"}

\* C8: for every layer sequence and every count n, zero and negative
\* included, LastNLayers, LargestNLayers, LargestLayers, SmallestLayers,
\* OldestLayers, NewestLayers, MostCommonCommands, MostProlificAuthors and
\* MostCommonTags return and never panic, and the sort-based ones return at
\* most min(n, len) layers.
C8_QueriesAreTotal ==
    res.op \in ({"LastNLayers"} \cup SortOps \cup RankOps) =>
        /\ ~res.fault
        /\ res.op \in SortOps =>
              Len(res.layers) <= Min(res.n, Len(res.arg))

\* C9: wherever a DockerImage can be observed, its Size is the sum of the
\* sizes of its Layers, which is what TotalSize(image.Layers) returns.
C9_ImageSizeIsSumOfLayers ==
    /\ image.Size = SumOfSizes(image.Layers)
    /\ image.Size = TotalSize(image.Layers)

\* C10: a record NewDockerLayer returns without error has a non-negative
\* size; a line whose size field is a negative integer gives no record.
C10_SizeIsNonNegative ==
    /\ \A i \in 1..Len(built) : built[i].Size >= 0
    /\ (res.op = "NewDockerLayer" /\ res.hasLayer) => res.layer.Size >= 0

=============================================================================
